---- MODULE Spec2Model ----
(***************************************************************************)
(* Model of the express-jobly repository layer: the partial-update clause  *)
(* builder (helpers/sql.js), the filter clause construction inside         *)
(* Company.findAll / Job.findAll, and the Company and Job repositories     *)
(* that issue parameterised statements to the database.                    *)
(*                                                                         *)
(* JavaScript values are records [t, n, s]: t is the typeof tag ("nan" and *)
(* "null" are kept apart from "number" and "object"), n the numeric        *)
(* payload, s the string payload as a sequence of one-character strings.   *)
(* Equity is held in tenths (0.4 is 4), salaries and head counts in units. *)
(***************************************************************************)
EXTENDS Integers, Sequences, FiniteSets

\* ------------------------------------------------------------------ bounds
\* longest filter text tried by findAll
MaxLen == 2
\* largest salary / numEmployees / equity figure held in a row or a filter
MaxNum == 2
\* largest number of rows of one table in a store handed to findAll
MaxRows == 2
\* largest number of keys of an update payload
MaxKeys == 2
\* largest id the jobs sequence hands out
MaxId == 2
\* largest number of Company.create calls in flight at once
MaxCallers == 2

\* --------------------------------------------------------------- JS values
Num(k) == [t |-> "number", n |-> k, s |-> <<>>]
Str(q) == [t |-> "string", n |-> 0, s |-> q]
Bool(b) == [t |-> "boolean", n |-> IF b THEN 1 ELSE 0, s |-> <<>>]
Null == [t |-> "null", n |-> 0, s |-> <<>>]
Undefined == [t |-> "undefined", n |-> 0, s |-> <<>>]
NaN == [t |-> "nan", n |-> 0, s |-> <<>>]
\* the empty array []: s is the text its toString() gives
EmptyArray == [t |-> "array", n |-> 0, s |-> <<>>]

\* UTF-16 code unit of the characters the model uses
CharCode(c) ==
  CASE c = " " -> 32 [] c = "%" -> 37
    [] c = "0" -> 48 [] c = "1" -> 49 [] c = "2" -> 50 [] c = "3" -> 51
    [] c = "4" -> 52 [] c = "5" -> 53 [] c = "6" -> 54 [] c = "7" -> 55
    [] c = "8" -> 56 [] c = "9" -> 57
    [] c = "A" -> 65 [] c = "B" -> 66 [] c = "_" -> 95
    [] c = "a" -> 97 [] c = "b" -> 98 [] c = "c" -> 99 [] c = "x" -> 120

IsDigit(c) == CharCode(c) >= 48 /\ CharCode(c) <= 57

DigitChar(d) ==
  CASE d = 0 -> "0" [] d = 1 -> "1" [] d = 2 -> "2" [] d = 3 -> "3"
    [] d = 4 -> "4" [] d = 5 -> "5" [] d = 6 -> "6" [] d = 7 -> "7"
    [] d = 8 -> "8" [] d = 9 -> "9"

LowerChar(c) == CASE c = "A" -> "a" [] c = "B" -> "b" [] OTHER -> c

LowerStr(q) == [i \in 1..Len(q) |-> LowerChar(q[i])]

\* decimal rendering of a natural number below 100 (String(n))
NumToStr(k) ==
  IF k < 10 THEN <<DigitChar(k)>>
  ELSE <<DigitChar(k \div 10), DigitChar(k % 10)>>

RECURSIVE DigitsValue(_)
DigitsValue(q) ==
  IF q = <<>> THEN 0
  ELSE 10 * DigitsValue(SubSeq(q, 1, Len(q) - 1)) + (CharCode(q[Len(q)]) - 48)

RECURSIVE TrimLeft(_)
TrimLeft(q) == IF q # <<>> /\ Head(q) = " " THEN TrimLeft(Tail(q)) ELSE q

RECURSIVE TrimRight(_)
TrimRight(q) ==
  IF q # <<>> /\ q[Len(q)] = " " THEN TrimRight(SubSeq(q, 1, Len(q) - 1)) ELSE q

Trim(q) == TrimRight(TrimLeft(q))

\* StringToNumber of the language: blank is 0, a digit string its value,
\* anything else NaN
StringToNumber(q) ==
  LET w == Trim(q) IN
    IF w = <<>> THEN Num(0)
    ELSE IF \A i \in 1..Len(w) : IsDigit(w[i]) THEN Num(DigitsValue(w))
    ELSE NaN

\* Number(v), the coercion behind the global isNaN and the relational operators
JsNumber(v) ==
  CASE v.t = "number" -> v
    [] v.t = "nan" -> NaN
    [] v.t = "string" -> StringToNumber(v.s)
    [] v.t = "boolean" -> Num(v.n)
    [] v.t = "null" -> Num(0)
    [] v.t = "array" -> StringToNumber(v.s)
    [] OTHER -> NaN

\* the global isNaN(v)
isNaN(v) == JsNumber(v).t = "nan"

\* lodash isNil(v)
isNil(v) == v.t = "null" \/ v.t = "undefined"

\* lodash toNumber(v)
toNumber(v) == JsNumber(v)

\* String(v), as a template literal renders it
JsString(v) ==
  CASE v.t = "string" -> v.s
    [] v.t = "number" -> NumToStr(v.n)

\* code-unit order of two strings: a < b
RECURSIVE StrLess(_, _)
StrLess(a, b) ==
  IF b = <<>> THEN FALSE
  ELSE IF a = <<>> THEN TRUE
  ELSE IF CharCode(Head(a)) # CharCode(Head(b))
       THEN CharCode(Head(a)) < CharCode(Head(b))
  ELSE StrLess(Tail(a), Tail(b))

\* the relational operator a > b of the language
JsGreater(a, b) ==
  IF a.t = "string" /\ b.t = "string" THEN StrLess(b.s, a.s)
  ELSE LET x == JsNumber(a)
           y == JsNumber(b)
       IN x.t = "number" /\ y.t = "number" /\ x.n > y.n

\* parseFloat(val) of the decimal text the server sends for a NUMERIC
parseFloat(val) == Num(DigitsValue(val))

\* a NUMERIC cell left as the text the server sends
NumericColumnText(v) == IF v.t = "null" THEN Null ELSE Str(NumToStr(v.n))

\* types.setTypeParser(1700, (val) => parseFloat(val)): a NUMERIC cell as
\* the driver hands it over; NULL is handed over as null, unparsed
NumericColumnOut(v) == IF v.t = "null" THEN Null ELSE parseFloat(NumToStr(v.n))

\* --------------------------------------------------------- helpers/sql.js
\* the builder without the translation: every key is its own column
ColumnForUntranslated(jsToSql, colName) == colName

\* jsToSql[colName] || colName : the translation when the table has a truthy
\* entry for the key, the key itself otherwise
ColumnFor(jsToSql, colName) ==
  IF colName \in DOMAIN jsToSql /\ jsToSql[colName] # ""
  THEN jsToSql[colName]
  ELSE colName

\* Object.keys(dataToUpdate); a mapping is the sequence of its [key, val]
\* entries in iteration order
ObjectKeys(dataToUpdate) == [i \in 1..Len(dataToUpdate) |-> dataToUpdate[i].key]

\* Object.values(dataToUpdate)
ObjectValues(dataToUpdate) == [i \in 1..Len(dataToUpdate) |-> dataToUpdate[i].val]

\* the placeholder numbered by the 0-based index itself
SetPlaceholderZeroBased(idx) == idx

\* $${idx + 1} for the 0-based index idx of keys.map
SetPlaceholder(idx) == idx + 1

\* the builder without its emptiness check
sqlForPartialUpdateUnchecked(dataToUpdate, jsToSql) ==
  [threw |-> FALSE, error |-> "", message |-> "",
   setCols |-> [i \in 1..Len(dataToUpdate) |->
                 [col |-> ColumnFor(jsToSql, dataToUpdate[i].key),
                  ph |-> SetPlaceholder(i - 1)]],
   values |-> ObjectValues(dataToUpdate)]

\* the builder passing over the keys whose value is null
sqlForPartialUpdateSkipsNull(dataToUpdate, jsToSql) ==
  LET kept == SelectSeq(dataToUpdate, LAMBDA e : e.val.t # "null")
      keys == ObjectKeys(kept)
  IN IF Len(keys) = 0
     THEN [threw |-> TRUE, error |-> "BadRequestError", message |-> "No data",
           setCols |-> <<>>, values |-> <<>>]
     ELSE [threw |-> FALSE, error |-> "", message |-> "",
           setCols |-> [i \in 1..Len(keys) |->
                         [col |-> ColumnFor(jsToSql, keys[i]),
                          ph |-> SetPlaceholder(i - 1)]],
           values |-> ObjectValues(kept)]

\* sqlForPartialUpdate(dataToUpdate, jsToSql): setCols is the list of
\* "<col>"=$<ph> fragments that the code joins with ", "
sqlForPartialUpdate(dataToUpdate, jsToSql) ==
  LET keys == ObjectKeys(dataToUpdate) IN
    IF Len(keys) = 0
    THEN [threw |-> TRUE, error |-> "BadRequestError", message |-> "No data",
          setCols |-> <<>>, values |-> <<>>]
    ELSE [threw |-> FALSE, error |-> "", message |-> "",
          setCols |-> [i \in 1..Len(keys) |->
                        [col |-> ColumnFor(jsToSql, keys[i]),
                         ph |-> SetPlaceholder(i - 1)]],
          values |-> ObjectValues(dataToUpdate)]

\* the table Company.update passes
CompanyJsToSql == [numEmployees |-> "num_employees", logoUrl |-> "logo_url"]

\* Job.update passes none: the default {}
JobJsToSql == [k \in {} |-> ""]

\* ------------------------------------------------------------ the database
RECURSIVE LikeMatch(_, _)
\* LIKE: % matches any run of characters, _ any one character
LikeMatch(pattern, text) ==
  IF pattern = <<>> THEN text = <<>>
  ELSE IF Head(pattern) = "%"
       THEN LikeMatch(Tail(pattern), text)
            \/ (text # <<>> /\ LikeMatch(pattern, Tail(text)))
  ELSE IF Head(pattern) = "_"
       THEN text # <<>> /\ LikeMatch(Tail(pattern), Tail(text))
  ELSE text # <<>> /\ Head(pattern) = Head(text)
       /\ LikeMatch(Tail(pattern), Tail(text))

\* text iLIKE pattern
ILike(text, pattern) == LikeMatch(LowerStr(pattern), LowerStr(text))

\* row field behind a column name (the AS aliases of the SELECT lists)
ColumnField(col) ==
  CASE col = "num_employees" -> "numEmployees"
    [] col = "logo_url" -> "logoUrl"
    [] col = "company_handle" -> "companyHandle"
    [] OTHER -> col

\* the placeholders a WHERE clause refers to
WherePlaceholders(where) ==
  {where[i].ph : i \in {j \in 1..Len(where) : where[j].ph > 0}}

\* one predicate of a WHERE clause on one row; a comparison with NULL is
\* not true
PredicateHolds(row, pred, values) ==
  LET cell == row[ColumnField(pred.col)] IN
    CASE pred.op = "iLIKE" ->
           cell.t = "string" /\ ILike(cell.s, values[pred.ph].s)
      [] pred.op = ">=" -> cell.t = "number" /\ cell.n >= values[pred.ph].n
      [] pred.op = "<=" -> cell.t = "number" /\ cell.n <= values[pred.ph].n
      [] pred.op = ">0" -> cell.t = "number" /\ cell.n > 0
      [] pred.op = "=" -> cell = values[pred.ph]

\* the server accepts a statement when the bound values are exactly the
\* parameters $1..$k it refers to and each has the type of its column
BindOk(where, values) ==
  /\ WherePlaceholders(where) = 1..Len(values)
  /\ \A i \in 1..Len(where) :
        where[i].ph > 0 =>
          values[where[i].ph].t = (IF where[i].op = "iLIKE" THEN "string"
                                   ELSE "number")

\* SELECT ... FROM table [WHERE ...]: the rows selected, before ORDER BY
SelectRows(table, query) ==
  {row \in table :
     \A i \in 1..Len(query.where) :
        PredicateHolds(row, query.where[i], query.values)}

\* the result rows in the order the server returns them: with ORDER BY field
\* every arrangement that ascends by the field (code-unit collation; rows
\* with equal keys come in either order), without ORDER BY any arrangement
OrderBy(rows, field) ==
  {q \in [1..Cardinality(rows) -> rows] :
     /\ \A i, j \in 1..Cardinality(rows) : i # j => q[i] # q[j]
     /\ field # "" =>
          \A i, j \in 1..Cardinality(rows) :
             i < j => ~StrLess(q[j][field].s, q[i][field].s)}

\* the columns of the two tables
TableColumns(table) ==
  IF table = "companies"
  THEN {"handle", "name", "description", "num_employees", "logo_url"}
  ELSE {"id", "title", "salary", "equity", "company_handle"}

NumericColumns == {"id", "salary", "equity", "num_employees"}

\* a bound value the server can store in the column
ColumnAccepts(col, v) ==
  IF col \in NumericColumns THEN v.t \in {"number", "null"}
  ELSE v.t \in {"string", "null"}

\* the placeholders an UPDATE refers to: those of SET and those of WHERE
UpdatePlaceholders(query) ==
  {query.set[i].ph : i \in 1..Len(query.set)} \cup WherePlaceholders(query.where)

\* the server rejects an UPDATE that names an unknown column, binds other
\* values than the parameters it refers to, or binds a value of another type
UpdateOk(query) ==
  /\ \A i \in 1..Len(query.set) : query.set[i].col \in TableColumns(query.table)
  /\ UpdatePlaceholders(query) = 1..Len(query.values)
  /\ \A i \in 1..Len(query.set) :
        ColumnAccepts(query.set[i].col, query.values[query.set[i].ph])

\* the row after SET: every named column takes its bound value
SetRow(row, query) ==
  [f \in DOMAIN row |->
     IF \E i \in 1..Len(query.set) : ColumnField(query.set[i].col) = f
     THEN LET i == CHOOSE j \in 1..Len(query.set) :
                      ColumnField(query.set[j].col) = f
          IN query.values[query.set[i].ph]
     ELSE row[f]]

\* UPDATE table SET ... WHERE ...: the table afterwards
UpdateRows(table, query) ==
  {IF row \in SelectRows(table, query) THEN SetRow(row, query) ELSE row :
     row \in table}

\* ... RETURNING: the rows it changed
UpdateReturning(table, query) ==
  {SetRow(row, query) : row \in SelectRows(table, query)}

\* ------------------------------------------- findAll: the filter clauses
\* filterObj is a function from the keys that are present to their values
Prop(obj, key) == IF key \in DOMAIN obj THEN obj[key] ELSE Undefined

\* lodash isEmpty of an object / of an array
isEmpty(obj) == DOMAIN obj = {}

EmptyObject == [k \in {} |-> Undefined]

NoClause ==
  [threw |-> FALSE, error |-> "", message |-> "",
   whereClause |-> <<>>, params |-> <<>>]

Throw(st, message) ==
  [st EXCEPT !.threw = TRUE, !.error = "BadRequestError", !.message = message]

\* the placeholder left at its initial "1"
NextPlaceholderFirst(params) == 1

\* let placeholder = "1"; if (!isEmpty(params)) placeholder = params.length + 1
NextPlaceholder(params) == IF isEmpty(params) THEN 1 ELSE Len(params) + 1

\* if (!isNil(text)) { whereClause.push(`<col> iLIKE $1`); params.push(`%${text}%`) }
PushText(st, col, text) ==
  IF st.threw \/ isNil(text) THEN st
  ELSE [st EXCEPT
          !.whereClause = Append(@, [col |-> col, op |-> "iLIKE", ph |-> 1]),
          !.params = Append(@, Str(<<"%">> \o JsString(text) \o <<"%">>))]

\* the threshold pushed without the isNaN check
PushThresholdUnchecked(st, key, col, op, v) ==
  IF st.threw \/ isNil(v) THEN st
  ELSE [st EXCEPT
          !.whereClause =
             Append(@, [col |-> col, op |-> op,
                        ph |-> NextPlaceholder(st.params)]),
          !.params = Append(@, toNumber(v))]

\* if (!isNil(v)) { if (isNaN(v)) throw ...; push `<col> <op> $<placeholder>` }
PushThreshold(st, key, col, op, v) ==
  IF st.threw \/ isNil(v) THEN st
  ELSE IF isNaN(v) THEN Throw(st, key \o " must be of type number")
  ELSE [st EXCEPT
          !.whereClause =
             Append(@, [col |-> col, op |-> op,
                        ph |-> NextPlaceholder(st.params)]),
          !.params = Append(@, toNumber(v))]

\* the equity predicate pushed for every hasEquity that is not nil
PushEquityWhenPresent(st, hasEquity) ==
  IF st.threw \/ isNil(hasEquity) THEN st
  ELSE [st EXCEPT
          !.whereClause = Append(@, [col |-> "equity", op |-> ">0", ph |-> 0])]

\* if (hasEquity === true) whereClause.push(`equity > 0`)
PushEquity(st, hasEquity) ==
  IF st.threw \/ ~(hasEquity.t = "boolean" /\ hasEquity.n = 1) THEN st
  ELSE [st EXCEPT
          !.whereClause = Append(@, [col |-> "equity", op |-> ">0", ph |-> 0])]

\* Job.findAll up to the query text: whereClause and params, or the throw
JobFilterClause(filterObj) ==
  LET title == Prop(filterObj, "title")
      minSalary == Prop(filterObj, "minSalary")
      hasEquity == Prop(filterObj, "hasEquity")
  IN IF isEmpty(filterObj) THEN NoClause
     ELSE PushEquity(
            PushThreshold(PushText(NoClause, "title", title),
                          "minSalary", "salary", ">=", minSalary),
            hasEquity)

\* the guard of the range check of Company.findAll
RangeConflict(minEmployees, maxEmployees) ==
  /\ ~isNil(minEmployees)
  /\ ~isNaN(minEmployees)
  /\ ~isNil(maxEmployees)
  /\ ~isNaN(maxEmployees)
  /\ JsGreater(minEmployees, maxEmployees)

\* Company.findAll up to the query text
CompanyFilterClause(filterObj) ==
  LET name == Prop(filterObj, "name")
      minEmployees == Prop(filterObj, "minEmployees")
      maxEmployees == Prop(filterObj, "maxEmployees")
  IN IF RangeConflict(minEmployees, maxEmployees)
     THEN Throw(NoClause, "minEmployees cannot be greater than the maxEmployees")
     ELSE IF isEmpty(filterObj) THEN NoClause
     ELSE PushThreshold(
            PushThreshold(PushText(NoClause, "name", name),
                          "minEmployees", "num_employees", ">=", minEmployees),
            "maxEmployees", "num_employees", "<=", maxEmployees)

\* the statement without its ORDER BY
SelectQueryUnordered(table, order, st) ==
  [cmd |-> "SELECT", table |-> table, set |-> <<>>,
   where |-> st.whereClause, order |-> "",
   hasValues |-> ~isEmpty(st.params), values |-> st.params]

\* the statement findAll hands to db.query: values only when there are params
SelectQuery(table, order, st) ==
  [cmd |-> "SELECT", table |-> table, set |-> <<>>,
   where |-> st.whereClause, order |-> order,
   hasValues |-> ~isEmpty(st.params), values |-> st.params]

\* -------------------------------------------------------------- the state
VARIABLES
  companies,  \* rows of the companies table
  jobs,       \* rows of the jobs table
  nextId,     \* next value of the jobs id sequence
  call,       \* the last repository call: operation and arguments
  outcome,    \* what it returned or threw
  queries,    \* the statements it handed to db.query, in order
  request,    \* the last HTTP request the app handled
  responses,  \* the responses the app sent for it, in order
  inflight    \* the concurrent Company.create calls: position and outcome

vars ==
  <<companies, jobs, nextId, call, outcome, queries,
    request, responses, inflight>>

NoCall ==
  [op |-> "none", key |-> Undefined, data |-> <<>>, jsToSql |-> JobJsToSql,
   filterObj |-> EmptyObject, omitted |-> FALSE, fields |-> EmptyObject]

NoOutcome ==
  [status |-> "none", error |-> "", message |-> "", rows |-> <<>>,
   setCols |-> <<>>, values |-> <<>>]

Returned(rows) == [NoOutcome EXCEPT !.status = "returned", !.rows = rows]

Threw(error, message) ==
  [NoOutcome EXCEPT !.status = "threw", !.error = error, !.message = message]

NoRequest ==
  [method |-> "", path |-> "", caller |-> "anon", id |-> Undefined,
   body |-> EmptyObject, query |-> <<>>]

\* a repository method called directly, as the model tests call it: no
\* request is handled and no other call is in flight
Direct == UNCHANGED <<request, responses, inflight>>

\* ------------------------------------------------------- rows and inputs
Handle1 == <<"c", "1">>
Handle2 == <<"c", "2">>

JobTitles == << <<"a", "B">>, <<"b">> >>
CompanyNames == << <<"a", "B">>, <<"b">> >>

\* a nullable figure: kind 0 is NULL, kind 1 the number 1, kind 2 MaxNum
Figure(k) == IF k = 0 THEN Null ELSE IF k = 1 THEN Num(1) ELSE Num(MaxNum)

\* a nullable equity: 0 stands for NULL, 1 for 0, 2 for 0.1
EquityFigure(k) == IF k = 0 THEN Null ELSE Num(k - 1)

JobKinds == 2 * 3 * 3

JobRow(id, k) ==
  [id |-> Num(id),
   title |-> Str(JobTitles[(k % 2) + 1]),
   salary |-> Figure((k \div 2) % 3),
   equity |-> EquityFigure(k \div (2 * 3)),
   companyHandle |-> Str(Handle1)]

CompanyKinds == 2 * 3

CompanyRow(i, k) ==
  [handle |-> Str(IF i = 1 THEN Handle1 ELSE <<"c", DigitChar(i)>>),
   name |-> Str(CompanyNames[(k % 2) + 1]),
   description |-> Str(<<"x">>),
   numEmployees |-> Figure(k \div 2),
   logoUrl |-> Null]

\* the kinds of the rows of a table of n rows, in insertion order; tables
\* that differ only in that order are taken once
KindLists(n, kinds) ==
  {f \in [1..n -> 0..(kinds - 1)] : \A i \in 1..n : i > 1 => f[i - 1] <= f[i]}

JobStores ==
  UNION {{ {JobRow(i, f[i]) : i \in 1..n} : f \in KindLists(n, JobKinds)} :
           n \in 0..MaxRows}

CompanyStores ==
  UNION {{ {CompanyRow(i, f[i]) : i \in 1..n} : f \in KindLists(n, CompanyKinds)} :
           n \in 0..MaxRows}

\* a key that the caller left out of the filter
Absent == [t |-> "absent", n |-> 0, s |-> <<>>]

TextChars == {"A", "_"}

Texts == UNION {[1..n -> TextChars] : n \in 0..MaxLen}

TextInputs == {Absent} \cup {Str(q) : q \in Texts}

ThresholdInputs ==
  {Absent} \cup {Num(k) : k \in 1..MaxNum}
  \cup {Str(NumToStr(MaxNum)), Str(<<"1", "0">>), Str(<<"a">>)}

EquityInputs == {Absent, Bool(TRUE), Bool(FALSE)}

\* the object literal with the keys whose value is not left out
Object3(k1, v1, k2, v2, k3, v3) ==
  LET val(k) == IF k = k1 THEN v1 ELSE IF k = k2 THEN v2 ELSE v3
  IN [k \in {x \in {k1, k2, k3} : val(x) # Absent} |-> val(k)]

JobFilters ==
  {Object3("title", t, "minSalary", m, "hasEquity", h) :
     t \in TextInputs, m \in ThresholdInputs, h \in EquityInputs}

CompanyFilters ==
  {Object3("name", t, "minEmployees", lo, "maxEmployees", hi) :
     t \in TextInputs, lo \in ThresholdInputs, hi \in ThresholdInputs}

\* ---------------------------------------------------------------- findAll
\* findAll(filterObj = {}) of either model: build the clause, run the one
\* SELECT, return its rows; a throw of the builder ends the call before
\* db.query, a rejected statement rejects the call
FindAll(table, rows, order, st) ==
  /\ UNCHANGED <<companies, jobs, nextId>>
  /\ IF st.threw
     THEN /\ queries' = <<>>
          /\ outcome' = Threw(st.error, st.message)
     ELSE LET query == SelectQuery(table, order, st) IN
            /\ queries' = <<query>>
            /\ IF ~BindOk(query.where, query.values)
               THEN outcome' = Threw("DatabaseError", "")
               ELSE \E result \in OrderBy(SelectRows(rows, query), query.order) :
                      outcome' = Returned(result)

\* Job.findAll(filterObj)
JobFindAll ==
  /\ call.op = "Job.findAll"
  /\ UNCHANGED call
  /\ FindAll("jobs", jobs, "title", JobFilterClause(call.filterObj))

\* Company.findAll(filterObj)
CompanyFindAll ==
  /\ call.op = "Company.findAll"
  /\ UNCHANGED call
  /\ FindAll("companies", companies, "name",
             CompanyFilterClause(call.filterObj))

\* a call of findAll with a filter, or without argument (filterObj = {})
FindCalls(op, filters) ==
  {[NoCall EXCEPT !.op = op, !.filterObj = f] : f \in filters}
  \cup {[NoCall EXCEPT !.op = op, !.omitted = TRUE]}

\* a store of jobs of one company, or a store of companies without jobs,
\* and the findAll call about to run on it
InitFind ==
  /\ \/ /\ jobs \in JobStores
        /\ companies = {CompanyRow(1, 0)}
        /\ call \in FindCalls("Job.findAll", JobFilters)
     \/ /\ jobs = {}
        /\ companies \in CompanyStores
        /\ call \in FindCalls("Company.findAll", CompanyFilters)
  /\ nextId = Cardinality(jobs) + 1
  /\ outcome = NoOutcome
  /\ queries = <<>>
  /\ request = NoRequest
  /\ responses = <<>>
  /\ inflight = <<>>

NextFind == (JobFindAll /\ Direct) \/ (CompanyFindAll /\ Direct)

SpecFind == InitFind /\ [][NextFind]_vars

\* ------------------------------------------------- update, create, remove
\* the UPDATE with the key bound to the placeholder "$" + values.length
UpdateQueryKeyShared(table, keyCol, built, key) ==
  [cmd |-> "UPDATE", table |-> table, set |-> built.setCols,
   where |-> <<[col |-> keyCol, op |-> "=", ph |-> Len(built.values)]>>,
   order |-> "", hasValues |-> TRUE, values |-> built.values \o <<key>>]

\* the UPDATE of Company.update / Job.update: the key is bound last, to the
\* placeholder "$" + (values.length + 1)
UpdateQuery(table, keyCol, built, key) ==
  [cmd |-> "UPDATE", table |-> table, set |-> built.setCols,
   where |-> <<[col |-> keyCol, op |-> "=", ph |-> Len(built.values) + 1]>>,
   order |-> "", hasValues |-> TRUE, values |-> built.values \o <<key>>]

\* SELECT / DELETE ... WHERE <keyCol> = $1
KeyQuery(cmd, table, keyCol, key) ==
  [cmd |-> cmd, table |-> table, set |-> <<>>,
   where |-> <<[col |-> keyCol, op |-> "=", ph |-> 1]>>,
   order |-> "", hasValues |-> TRUE, values |-> <<key>>]

\* INSERT INTO table (cols) VALUES ($1, ..., $n)
InsertQuery(table, cols, values) ==
  [cmd |-> "INSERT", table |-> table,
   set |-> [i \in 1..Len(cols) |-> [col |-> cols[i], ph |-> i]],
   where |-> <<>>, order |-> "", hasValues |-> TRUE, values |-> values]

\* sqlForPartialUpdate called on its own, as its unit test calls it
CallSqlForPartialUpdate(dataToUpdate, jsToSql) ==
  LET built == sqlForPartialUpdate(dataToUpdate, jsToSql) IN
    /\ call' = [NoCall EXCEPT !.op = "sqlForPartialUpdate",
                              !.data = dataToUpdate, !.jsToSql = jsToSql]
    /\ outcome' = IF built.threw THEN Threw(built.error, built.message)
                  ELSE [NoOutcome EXCEPT !.status = "returned",
                                         !.setCols = built.setCols,
                                         !.values = built.values]
    /\ queries' = <<>>
    /\ UNCHANGED <<companies, jobs, nextId>>

\* the common body of Company.update and Job.update: the builder throws
\* before db.query; no returned row is NotFoundError
Update(table, keyCol, rows, key, built, missing) ==
  IF built.threw
  THEN [queries |-> <<>>, rows |-> rows,
        outcome |-> Threw(built.error, built.message)]
  ELSE LET query == UpdateQuery(table, keyCol, built, key) IN
         IF ~UpdateOk(query)
         THEN [queries |-> <<query>>, rows |-> rows,
               outcome |-> Threw("DatabaseError", "")]
         ELSE LET back == UpdateReturning(rows, query) IN
                [queries |-> <<query>>, rows |-> UpdateRows(rows, query),
                 outcome |-> IF back = {} THEN Threw("NotFoundError", missing)
                             ELSE Returned(<<CHOOSE row \in back : TRUE>>)]

\* a reference that is never looked up
ReferencesAny(handle, rows) == TRUE

\* jobs.company_handle refers to companies: the handle is that of a company
ReferencesCompany(handle, rows) == \E c \in rows : c.handle = handle

\* the jobs left when the companies gone are deleted: their jobs go with them
OnDeleteCascade(rows, gone) ==
  {j \in rows : \A c \in gone : j.companyHandle # c.handle}

\* the constraints of the companies table after a statement: handle is the
\* primary key and jobs.company_handle refers to it, so no two rows may end
\* up with one handle and no job may lose the company it names
CompaniesOk(rows, before) ==
  /\ Cardinality({c.handle : c \in rows}) = Cardinality(before)
  /\ \A j \in jobs : ReferencesCompany(j.companyHandle, rows)

\* the constraints of the jobs table after a statement: id is the primary
\* key and company_handle names a company
JobsOk(rows, before) ==
  /\ Cardinality({j.id : j \in rows}) = Cardinality(before)
  /\ \A j \in rows : ReferencesCompany(j.companyHandle, companies)

\* a job row as the driver hands it over: equity is a NUMERIC
JobOut(row) == [row EXCEPT !.equity = NumericColumnOut(@)]

\* a parameter as the driver binds it: undefined is sent as NULL
BindValue(v) == IF v.t = "undefined" THEN Null ELSE v

\* Company.update(handle, data)
CompanyUpdate(handle, data) ==
  LET done == Update("companies", "handle", companies, handle,
                     sqlForPartialUpdate(data, CompanyJsToSql), "No company")
      ok == CompaniesOk(done.rows, companies)
  IN /\ call' = [NoCall EXCEPT !.op = "Company.update", !.key = handle,
                               !.data = data, !.jsToSql = CompanyJsToSql]
     /\ companies' = IF ok THEN done.rows ELSE companies
     /\ outcome' = IF ok THEN done.outcome ELSE Threw("DatabaseError", "")
     /\ queries' = done.queries
     /\ UNCHANGED <<jobs, nextId>>

\* the body of Job.update(id, data), called as op
JobUpdateCall(op, id, data) ==
  LET done == Update("jobs", "id", jobs, id,
                     sqlForPartialUpdate(data, JobJsToSql), "No job")
      ok == JobsOk(done.rows, jobs)
  IN /\ call' = [NoCall EXCEPT !.op = op, !.key = id,
                               !.data = data, !.jsToSql = JobJsToSql]
     /\ jobs' = IF ok THEN done.rows ELSE jobs
     /\ outcome' = IF ~ok THEN Threw("DatabaseError", "")
                   ELSE IF done.outcome.status = "returned"
                        THEN Returned(<<JobOut(done.outcome.rows[1])>>)
                        ELSE done.outcome
     /\ queries' = done.queries
     /\ UNCHANGED <<companies, nextId>>

\* Job.update(id, data)
JobUpdate(id, data) == JobUpdateCall("Job.update", id, data)

\* Data can include: {title, salary, equity}
JobUpdateKeys == {"title", "salary", "equity"}

\* Data can include: {name, description, numEmployees, logoUrl}
CompanyUpdateKeys == {"name", "description", "numEmployees", "logoUrl"}

\* a validation that lets every body through
JobUpdateSchemaAny(body) == TRUE

\* the validation of the body of PATCH /jobs/:id: a body that names anything
\* but the fields a job update may carry is refused
JobUpdateSchemaValid(body) ==
  \A i \in 1..Len(body) : body[i].key \in JobUpdateKeys

\* PATCH /jobs/:id: the body is validated, then handed to Job.update
PatchJob(id, body) ==
  IF JobUpdateSchemaValid(body)
  THEN JobUpdateCall("PATCH /jobs/:id", id, body)
  ELSE /\ call' = [NoCall EXCEPT !.op = "PATCH /jobs/:id", !.key = id,
                                 !.data = body]
       /\ outcome' = Threw("BadRequestError", "")
       /\ queries' = <<>>
       /\ UNCHANGED <<companies, jobs, nextId>>

\* Company.create without its duplicate check: the INSERT alone, which the
\* primary key refuses for a handle that exists
CompanyCreateUnchecked(data) ==
  LET handle == Prop(data, "handle")
      values == <<handle, Prop(data, "name"), Prop(data, "description"),
                  Prop(data, "numEmployees"), Prop(data, "logoUrl")>>
      insert == InsertQuery("companies",
                  <<"handle", "name", "description", "num_employees", "logo_url">>,
                  values)
      row == [handle |-> BindValue(values[1]), name |-> BindValue(values[2]),
              description |-> BindValue(values[3]),
              numEmployees |-> BindValue(values[4]),
              logoUrl |-> BindValue(values[5])]
  IN /\ call' = [NoCall EXCEPT !.op = "Company.create", !.key = handle,
                               !.fields = data]
     /\ UNCHANGED <<jobs, nextId>>
     /\ queries' = <<insert>>
     /\ IF \E c \in companies : c.handle = row.handle
        THEN /\ outcome' = Threw("DatabaseError", "")
             /\ UNCHANGED companies
        ELSE /\ companies' = companies \cup {row}
             /\ outcome' = Returned(<<row>>)

\* Company.create(data): the duplicate check, then the INSERT ... RETURNING
CompanyCreate(data) ==
  LET handle == Prop(data, "handle")
      check == KeyQuery("SELECT", "companies", "handle", handle)
      values == <<handle, Prop(data, "name"), Prop(data, "description"),
                  Prop(data, "numEmployees"), Prop(data, "logoUrl")>>
      insert == InsertQuery("companies",
                  <<"handle", "name", "description", "num_employees", "logo_url">>,
                  values)
      row == [handle |-> BindValue(values[1]), name |-> BindValue(values[2]),
              description |-> BindValue(values[3]),
              numEmployees |-> BindValue(values[4]),
              logoUrl |-> BindValue(values[5])]
  IN /\ call' = [NoCall EXCEPT !.op = "Company.create", !.key = handle,
                               !.fields = data]
     /\ UNCHANGED <<jobs, nextId>>
     /\ IF SelectRows(companies, check) # {}
        THEN /\ outcome' = Threw("BadRequestError", "Duplicate company")
             /\ queries' = <<check>>
             /\ UNCHANGED companies
        ELSE /\ companies' = companies \cup {row}
             /\ outcome' = Returned(<<row>>)
             /\ queries' = <<check, insert>>

\* Job.create(data): one INSERT ... RETURNING; the id comes from the
\* sequence, which a refused INSERT has advanced too, and the company_handle
\* has to name a company
JobCreate(data) ==
  LET insert == InsertQuery("jobs",
                  <<"title", "salary", "equity", "company_handle">>,
                  <<data.title, data.salary, data.equity, data.companyHandle>>)
      row == [id |-> Num(nextId), title |-> data.title, salary |-> data.salary,
              equity |-> data.equity, companyHandle |-> data.companyHandle]
  IN /\ nextId <= MaxId
     /\ call' = [NoCall EXCEPT !.op = "Job.create", !.key = data.companyHandle,
                               !.fields = data]
     /\ queries' = <<insert>>
     /\ nextId' = nextId + 1
     /\ UNCHANGED companies
     /\ IF ReferencesCompany(data.companyHandle, companies)
        THEN /\ jobs' = jobs \cup {row}
             /\ outcome' = Returned(<<JobOut(row)>>)
        ELSE /\ outcome' = Threw("DatabaseError", "")
             /\ UNCHANGED jobs

\* the jobs column of Company.get aggregated from a subquery without its
\* ORDER BY
JobsOfUnordered(handle) ==
  LET joined == {j \in jobs : j.companyHandle = handle} IN
    IF Cardinality(joined) = 0 THEN {<<>>} ELSE OrderBy(joined, "")

\* the jobs column of Company.get: CASE WHEN COUNT(j) = 0 THEN the empty
\* array ELSE the job objects of the jobs joined to the company, aggregated
\* from the subquery that is ordered by title
JobsOf(handle) ==
  LET joined == {j \in jobs : j.companyHandle = handle} IN
    IF Cardinality(joined) = 0 THEN {<<>>} ELSE OrderBy(joined, "title")

\* Company.get(handle): the company and its jobs, or NotFoundError
CompanyGet(handle) ==
  LET query == KeyQuery("SELECT", "companies", "handle", handle)
      found == SelectRows(companies, query)
  IN /\ call' = [NoCall EXCEPT !.op = "Company.get", !.key = handle]
     /\ queries' = <<query>>
     /\ UNCHANGED <<companies, jobs, nextId>>
     /\ IF found = {}
        THEN outcome' = Threw("NotFoundError", "No company")
        ELSE \E c \in found, list \in JobsOf(handle) :
               outcome' =
                 Returned(<<[handle |-> c.handle, name |-> c.name,
                             description |-> c.description,
                             numEmployees |-> c.numEmployees,
                             logoUrl |-> c.logoUrl, jobs |-> list]>>)

\* Job.get(id): the job, or NotFoundError
JobGet(id) ==
  LET query == KeyQuery("SELECT", "jobs", "id", id)
      found == SelectRows(jobs, query)
  IN /\ call' = [NoCall EXCEPT !.op = "Job.get", !.key = id]
     /\ queries' = <<query>>
     /\ UNCHANGED <<companies, jobs, nextId>>
     /\ IF found = {}
        THEN outcome' = Threw("NotFoundError", "No job")
        ELSE \E j \in found : outcome' = Returned(<<JobOut(j)>>)

\* Company.remove with a DELETE that lost its WHERE clause
CompanyRemoveAll(handle) ==
  LET query == KeyQuery("DELETE", "companies", "handle", handle)
      gone == companies
  IN /\ call' = [NoCall EXCEPT !.op = "Company.remove", !.key = handle]
     /\ queries' = <<query>>
     /\ companies' = companies \ gone
     /\ jobs' = OnDeleteCascade(jobs, gone)
     /\ outcome' = IF gone = {} THEN Threw("NotFoundError", "No company")
                   ELSE Returned(<<>>)
     /\ UNCHANGED nextId

\* Company.remove(handle): DELETE ... RETURNING handle; the jobs of the
\* company go with it
CompanyRemove(handle) ==
  LET query == KeyQuery("DELETE", "companies", "handle", handle)
      gone == SelectRows(companies, query)
  IN /\ call' = [NoCall EXCEPT !.op = "Company.remove", !.key = handle]
     /\ queries' = <<query>>
     /\ companies' = companies \ gone
     /\ jobs' = OnDeleteCascade(jobs, gone)
     /\ outcome' = IF gone = {} THEN Threw("NotFoundError", "No company")
                   ELSE Returned(<<>>)
     /\ UNCHANGED nextId

\* Job.remove without the check of the row the DELETE returns
JobRemoveSilent(id) ==
  LET query == KeyQuery("DELETE", "jobs", "id", id)
      gone == SelectRows(jobs, query)
  IN /\ call' = [NoCall EXCEPT !.op = "Job.remove", !.key = id]
     /\ queries' = <<query>>
     /\ jobs' = jobs \ gone
     /\ outcome' = Returned(<<>>)
     /\ UNCHANGED <<companies, nextId>>

\* Job.remove(id): DELETE ... RETURNING id
JobRemove(id) ==
  LET query == KeyQuery("DELETE", "jobs", "id", id)
      gone == SelectRows(jobs, query)
  IN /\ call' = [NoCall EXCEPT !.op = "Job.remove", !.key = id]
     /\ queries' = <<query>>
     /\ jobs' = jobs \ gone
     /\ outcome' = IF gone = {} THEN Threw("NotFoundError", "No job")
                   ELSE Returned(<<>>)
     /\ UNCHANGED <<companies, nextId>>

\* ------------------------------------------------- inputs of the calls
Handles == {Str(Handle1), Str(Handle2)}

JobIds == {Num(k) : k \in 0..MaxId}

\* the data of Company.create, with logoUrl null or left out
NewCompanies ==
  {[handle |-> h, name |-> Str(CompanyNames[1]), description |-> Str(<<"x">>),
    numEmployees |-> Num(1), logoUrl |-> Null] : h \in Handles}
  \cup
  {[handle |-> h, name |-> Str(CompanyNames[1]), description |-> Str(<<"x">>),
    numEmployees |-> Num(1)] : h \in Handles}

NewJobs ==
  {[title |-> Str(JobTitles[2]), salary |-> Num(1), equity |-> Num(0),
    companyHandle |-> h] : h \in Handles}

CompanyEntries ==
  {[key |-> "name", val |-> Str(CompanyNames[1])],
   [key |-> "numEmployees", val |-> Null],
   [key |-> "handle", val |-> Str(Handle2)]}

JobEntries ==
  {[key |-> "title", val |-> Str(JobTitles[1])],
   [key |-> "salary", val |-> Null]}

\* what a request body may carry besides: the company reference under the
\* name of the field and under the name of the column
PatchEntries ==
  {[key |-> "salary", val |-> Null],
   [key |-> "companyHandle", val |-> Str(Handle2)],
   [key |-> "company_handle", val |-> Str(Handle2)]}

\* the mapping and the table of the unit test of the builder
TestEntries ==
  {[key |-> "firstName", val |-> Str(<<"a">>)],
   [key |-> "age", val |-> Num(MaxNum)]}

TestJsToSql == [firstName |-> "first_name"]

\* the mappings of at most MaxKeys of the entries, in every key order
Payloads(entries) ==
  {p \in UNION {[1..n -> entries] : n \in 0..MaxKeys} :
     \A i, j \in 1..Len(p) : i # j => p[i].key # p[j].key}

TestPayloads == Payloads(TestEntries)

CompanyPayloads == Payloads(CompanyEntries)

JobPayloads == Payloads(JobEntries)

PatchBodies == Payloads(PatchEntries)

\* the store after commonBeforeAll, cut down to one company without jobs
Init ==
  /\ companies = {[handle |-> Str(Handle1), name |-> Str(CompanyNames[1]),
                   description |-> Str(<<"x">>), numEmployees |-> Num(1),
                   logoUrl |-> Null]}
  /\ jobs = {}
  /\ nextId = 1
  /\ call = NoCall
  /\ outcome = NoOutcome
  /\ queries = <<>>
  /\ request = NoRequest
  /\ responses = <<>>
  /\ inflight = <<>>

\* no call is outstanding: the caller has taken the outcome of the last one
Fresh == outcome.status = "none"

RemoveOps == {"Company.remove", "Job.remove"}

WriteOps ==
  {"Company.create", "Job.create", "Company.update", "Job.update",
   "PATCH /jobs/:id"} \cup RemoveOps

\* the caller takes the outcome of the call and keeps nothing of it
Finish ==
  /\ ~Fresh
  /\ call' = NoCall
  /\ outcome' = NoOutcome
  /\ queries' = <<>>
  /\ UNCHANGED <<companies, jobs, nextId>>

\* a caller starts from scratch, or follows a write with a get while it
\* still holds what the write returned, or a remove with a second remove
Next ==
  \/ /\ Fresh
     /\ \E data \in TestPayloads, jsToSql \in {TestJsToSql, JobJsToSql} :
           CallSqlForPartialUpdate(data, jsToSql)
     /\ Direct
  \/ /\ Fresh
     /\ \E handle \in Handles, data \in CompanyPayloads :
           CompanyUpdate(handle, data)
     /\ Direct
  \/ /\ Fresh
     /\ \E id \in JobIds, data \in JobPayloads : JobUpdate(id, data)
     /\ Direct
  \/ /\ Fresh
     /\ \E id \in JobIds, body \in PatchBodies : PatchJob(id, body)
     /\ Direct
  \/ /\ Fresh
     /\ \E data \in NewCompanies : CompanyCreate(data)
     /\ Direct
  \/ /\ Fresh
     /\ \E data \in NewJobs : JobCreate(data)
     /\ Direct
  \/ /\ Fresh \/ call.op \in WriteOps
     /\ \E handle \in Handles : CompanyGet(handle)
     /\ Direct
  \/ /\ Fresh \/ call.op \in WriteOps
     /\ \E id \in JobIds : JobGet(id)
     /\ Direct
  \/ /\ Fresh \/ call.op \in RemoveOps
     /\ \E handle \in Handles : CompanyRemove(handle)
     /\ Direct
  \/ /\ Fresh \/ call.op \in RemoveOps
     /\ \E id \in JobIds : JobRemove(id)
     /\ Direct
  \/ /\ Finish
     /\ Direct

Spec == Init /\ [][Next]_vars

\* ------------------------------------------------------- the HTTP layer
\* who sends a request: nobody known, the user of u1Token, the admin of
\* adminToken
Callers == {"anon", "user", "admin"}

\* the status the class of an error gives it; an error of the driver has none
ErrorStatus(error) ==
  CASE error = "NotFoundError" -> Num(404)
    [] error = "UnauthorizedError" -> Num(401)
    [] error = "BadRequestError" -> Num(400)
    [] OTHER -> Undefined

\* the error handler answering with the status of the error as it is
ErrorHandlerNoDefault(err) ==
  [status |-> err.status.n, message |-> err.message,
   errorStatus |-> err.status, rows |-> <<>>]

\* app.use((err, req, res, next) => ...): the answer is sent with
\* status || 500 and the body {error: {message, status}}
ErrorHandler(err) ==
  [status |-> IF err.status.t = "number" /\ err.status.n # 0
              THEN err.status.n ELSE 500,
   message |-> err.message, errorStatus |-> err.status, rows |-> <<>>]

\* the responses of a request whose handling ended as out: the reply of the
\* route, or the answer of the error handler to the error handed to next
Answer(okStatus, out) ==
  IF out.status = "threw"
  THEN <<ErrorHandler([status |-> ErrorStatus(out.error),
                       message |-> out.message])>>
  ELSE <<[status |-> okStatus, message |-> "", errorStatus |-> Undefined,
          rows |-> out.rows]>>

\* a guard that lets every caller with a token through
ensureLoggedIn(caller) == caller # "anon"

\* the guard of the mutating routes: the caller's token says isAdmin
ensureAdmin(caller) == caller = "admin"

\* the handling ends with an error before any repository method is called
Refused(error, message) ==
  /\ call' = NoCall
  /\ outcome' = Threw(error, message)
  /\ queries' = <<>>
  /\ UNCHANGED <<companies, jobs, nextId>>

\* data should be { title, salary, equity, companyHandle }
JobNewKeys == {"title", "salary", "equity", "companyHandle"}

\* the validation of the body of POST /jobs
JobNewSchemaValid(body) ==
  /\ {"title", "companyHandle"} \subseteq DOMAIN body
  /\ DOMAIN body \subseteq JobNewKeys
  /\ "salary" \in DOMAIN body => body.salary.t \in {"number", "null"}

\* the query keys GET /jobs accepts
JobQueryKeys == {"title", "minSalary", "hasEquity"}

\* the keys of the query string, in request order
QueryKeys(query) == [i \in 1..Len(query) |-> query[i].key]

\* a check that takes every key for supported
UnsupportedKeysNone(query) == <<>>

\* the keys of the query string GET /jobs does not accept, in request order
UnsupportedKeys(query) ==
  SelectSeq(QueryKeys(query), LAMBDA k : k \notin JobQueryKeys)

\* keys.join(", ")
RECURSIVE JoinKeys(_)
JoinKeys(keys) ==
  IF Len(keys) = 1 THEN keys[1]
  ELSE keys[1] \o ", " \o JoinKeys(Tail(keys))

UnsupportedMessage(keys) ==
  IF Len(keys) = 1 THEN "Query " \o keys[1] \o " is not supported."
  ELSE "Queries " \o JoinKeys(keys) \o " are not supported."

\* req.query as an object
QueryObject(query) ==
  [k \in {query[i].key : i \in 1..Len(query)} |->
     (CHOOSE e \in {query[i] : i \in 1..Len(query)} : e.key = k).val]

\* POST /jobs
PostJobs(caller, body) ==
  /\ request' = [NoRequest EXCEPT !.method = "POST", !.path = "/jobs",
                                  !.caller = caller, !.body = body]
  /\ IF ~ensureAdmin(caller) THEN Refused("UnauthorizedError", "Unauthorized")
     ELSE IF ~JobNewSchemaValid(body) THEN Refused("BadRequestError", "")
     ELSE JobCreate(body)
  /\ responses' = Answer(201, outcome')
  /\ UNCHANGED inflight

\* GET /jobs
GetJobs(caller, query) ==
  /\ request' = [NoRequest EXCEPT !.method = "GET", !.path = "/jobs",
                                  !.caller = caller, !.query = query]
  /\ IF UnsupportedKeys(query) # <<>>
     THEN Refused("BadRequestError",
                  UnsupportedMessage(UnsupportedKeys(query)))
     ELSE /\ call' = [NoCall EXCEPT !.op = "Job.findAll",
                                    !.filterObj = QueryObject(query)]
          /\ FindAll("jobs", jobs, "title",
                     JobFilterClause(QueryObject(query)))
  /\ responses' = Answer(200, outcome')
  /\ UNCHANGED inflight

\* GET /jobs/:id
GetJob(caller, id) ==
  /\ request' = [NoRequest EXCEPT !.method = "GET", !.path = "/jobs/:id",
                                  !.caller = caller, !.id = id]
  /\ JobGet(id)
  /\ responses' = Answer(200, outcome')
  /\ UNCHANGED inflight

\* PATCH /jobs/:id behind its guard
PatchJobs(caller, id, body) ==
  /\ request' = [NoRequest EXCEPT !.method = "PATCH", !.path = "/jobs/:id",
                                  !.caller = caller, !.id = id,
                                  !.query = body]
  /\ IF ~ensureAdmin(caller) THEN Refused("UnauthorizedError", "Unauthorized")
     ELSE PatchJob(id, body)
  /\ responses' = Answer(200, outcome')
  /\ UNCHANGED inflight

\* DELETE /jobs/:id
DeleteJob(caller, id) ==
  /\ request' = [NoRequest EXCEPT !.method = "DELETE", !.path = "/jobs/:id",
                                  !.caller = caller, !.id = id]
  /\ IF ~ensureAdmin(caller) THEN Refused("UnauthorizedError", "Unauthorized")
     ELSE JobRemove(id)
  /\ responses' = Answer(200, outcome')
  /\ UNCHANGED inflight

\* POST /companies
PostCompanies(caller, body) ==
  /\ request' = [NoRequest EXCEPT !.method = "POST", !.path = "/companies",
                                  !.caller = caller, !.body = body]
  /\ IF ~ensureAdmin(caller) THEN Refused("UnauthorizedError", "Unauthorized")
     ELSE CompanyCreate(body)
  /\ responses' = Answer(201, outcome')
  /\ UNCHANGED inflight

\* a request no router takes: app.use((req, res, next) =>
\* next(new NotFoundError()))
NoRoute(caller) ==
  /\ request' = [NoRequest EXCEPT !.method = "GET", !.path = "/nowhere",
                                  !.caller = caller]
  /\ Refused("NotFoundError", "Not Found")
  /\ responses' = Answer(200, outcome')
  /\ UNCHANGED inflight

\* the bodies of POST /jobs: a job of the company of the store, a job of a
\* company that is not there, a body without companyHandle and equity, and
\* one with a salary that is no number
PostJobsBodies ==
  LET newJob == [title |-> Str(JobTitles[2]), salary |-> Num(1),
                 equity |-> Num(0), companyHandle |-> Str(Handle1)]
  IN {newJob,
      [newJob EXCEPT !.companyHandle = Str(Handle2)],
      [title |-> Str(JobTitles[2]), salary |-> Num(1)],
      [newJob EXCEPT !.salary = Str(<<"a">>)]}

\* the query strings of GET /jobs: none, a supported key, one and two
\* unsupported keys in both orders, and supported keys among unsupported ones
QueryStrings ==
  LET title == [key |-> "title", val |-> Str(<<"A">>)]
      notSupported == [key |-> "notSupported", val |-> Str(<<"a">>)]
      anotherUnsupported == [key |-> "anotherUnsupported", val |-> Str(<<"x">>)]
  IN {<<>>, <<title>>, <<notSupported>>,
      <<notSupported, anotherUnsupported>>,
      <<anotherUnsupported, notSupported>>,
      <<title, notSupported>>,
      <<anotherUnsupported, title, notSupported>>}

\* the bodies of PATCH /jobs/:id: a title, the company under the name of
\* the field, and a title with the company under the name of the column
PatchJobsBodies ==
  LET title == [key |-> "title", val |-> Str(JobTitles[1])]
      companyHandle == [key |-> "companyHandle", val |-> Str(Handle2)]
      company_handle == [key |-> "company_handle", val |-> Str(Handle2)]
  IN {<<title>>, <<companyHandle>>, <<title, company_handle>>}

\* the bodies of POST /companies: the company of the store once more
PostCompaniesBodies ==
  {c \in NewCompanies : c.handle = Str(Handle1) /\ "logoUrl" \in DOMAIN c}

NextHttp ==
  \/ \E caller \in Callers, body \in PostJobsBodies : PostJobs(caller, body)
  \/ \E caller \in Callers, query \in QueryStrings : GetJobs(caller, query)
  \/ \E caller \in Callers, id \in JobIds : GetJob(caller, id)
  \/ \E caller \in Callers, id \in JobIds, body \in PatchJobsBodies :
        PatchJobs(caller, id, body)
  \/ \E caller \in Callers, id \in JobIds : DeleteJob(caller, id)
  \/ \E caller \in Callers, body \in PostCompaniesBodies :
        PostCompanies(caller, body)
  \/ \E caller \in Callers : NoRoute(caller)

SpecHttp == Init /\ [][NextHttp]_vars

\* ------------------------------------ Company.create calls in flight
\* a call of Company.create(data) that has not yet reached its first await
Started(data) == [pc |-> "check", data |-> data, outcome |-> NoOutcome]

\* the first await of Company.create: the duplicate check is answered from
\* the store as it is now; a row found ends the call with BadRequestError
DuplicateCheck(p) ==
  LET handle == Prop(inflight[p].data, "handle")
      check == KeyQuery("SELECT", "companies", "handle", handle)
  IN /\ inflight[p].pc = "check"
     /\ queries' = Append(queries, check)
     /\ inflight' =
          [inflight EXCEPT
             ![p] = IF SelectRows(companies, check) # {}
                    THEN [@ EXCEPT !.pc = "done",
                            !.outcome = Threw("BadRequestError",
                                              "Duplicate company")]
                    ELSE [@ EXCEPT !.pc = "insert"]]
     /\ UNCHANGED <<companies, jobs, nextId, call, outcome, request, responses>>

\* the second await: the INSERT is run on the store as it is now; the
\* primary key refuses a handle that has been stored meanwhile, and the
\* rejection of db.query is what the call throws
Insert(p) ==
  LET data == inflight[p].data
      values == <<Prop(data, "handle"), Prop(data, "name"),
                  Prop(data, "description"), Prop(data, "numEmployees"),
                  Prop(data, "logoUrl")>>
      insert == InsertQuery("companies",
                  <<"handle", "name", "description", "num_employees", "logo_url">>,
                  values)
      row == [handle |-> BindValue(values[1]), name |-> BindValue(values[2]),
              description |-> BindValue(values[3]),
              numEmployees |-> BindValue(values[4]),
              logoUrl |-> BindValue(values[5])]
      ok == \A c \in companies : c.handle # row.handle
  IN /\ inflight[p].pc = "insert"
     /\ queries' = Append(queries, insert)
     /\ companies' = IF ok THEN companies \cup {row} ELSE companies
     /\ inflight' =
          [inflight EXCEPT
             ![p] = [@ EXCEPT !.pc = "done",
                       !.outcome = IF ok THEN Returned(<<row>>)
                                   ELSE Threw("DatabaseError", "")]]
     /\ UNCHANGED <<jobs, nextId, call, outcome, request, responses>>

\* two or more calls of Company.create started on the store of Init
InitRace ==
  /\ companies = {[handle |-> Str(Handle1), name |-> Str(CompanyNames[1]),
                   description |-> Str(<<"x">>), numEmployees |-> Num(1),
                   logoUrl |-> Null]}
  /\ jobs = {}
  /\ nextId = 1
  /\ call = NoCall
  /\ outcome = NoOutcome
  /\ queries = <<>>
  /\ request = NoRequest
  /\ responses = <<>>
  /\ \E n \in 2..MaxCallers :
        inflight \in [1..n -> {Started(data) : data \in NewCompanies}]

NextRace ==
  \/ \E p \in DOMAIN inflight : DuplicateCheck(p)
  \/ \E p \in DOMAIN inflight : Insert(p)

SpecRace == InitRace /\ [][NextRace]_vars

\* ------------------------------------------------------------ properties
UpdateOps == {"Company.update", "Job.update"}

BuilderOps == {"sqlForPartialUpdate"} \cup UpdateOps

\* the builder ran on a non-empty mapping and its result is in the state:
\* returned by the direct call, or in the UPDATE a repository issued
Built == call.op \in BuilderOps /\ call.data # <<>> /\ outcome.status # "none"

\* the assignment fragments the builder produced in the last call
BuiltSetCols ==
  IF call.op \in UpdateOps THEN queries[1].set ELSE outcome.setCols

\* the values the builder produced in the last call: an UPDATE carries them
\* in front of the key
BuiltValues ==
  IF call.op \in UpdateOps
  THEN SubSeq(queries[1].values, 1, Len(queries[1].values) - 1)
  ELSE outcome.values

\* C1: for a non-empty mapping of n keys the builder yields n assignment
\* fragments, the i-th for the i-th key with placeholder $i, and n values,
\* the i-th being the value of the i-th key
C1_OneFragmentPerKey ==
  Built =>
    /\ call.op = "sqlForPartialUpdate" => outcome.status = "returned"
    /\ call.op \in UpdateOps => Len(queries) = 1
    /\ Len(BuiltSetCols) = Len(call.data)
    /\ Len(BuiltValues) = Len(call.data)
    /\ \A i \in 1..Len(call.data) :
         /\ BuiltSetCols[i].ph = i
         /\ \/ BuiltSetCols[i].col = call.data[i].key
            \/ /\ call.data[i].key \in DOMAIN call.jsToSql
               /\ BuiltSetCols[i].col = call.jsToSql[call.data[i].key]
         /\ BuiltValues[i] = call.data[i].val

\* a direct call and an update with two keys, the second fragment being $2
C1_Witness ==
  /\ Built
  /\ Len(call.data) = 2
  /\ BuiltSetCols[2].ph = 2
  /\ BuiltValues[2] = call.data[2].val
  /\ call.data[1].val # call.data[2].val

\* the column Company.update is to write for a key of its payload
CompanyColumn(key) ==
  CASE key = "numEmployees" -> "num_employees"
    [] key = "logoUrl" -> "logo_url"
    [] OTHER -> key

\* C2: the column of every fragment is the translation of its key when the
\* table has one and the key itself otherwise; Company.update writes
\* num_employees for numEmployees, logo_url for logoUrl and every other key
\* under its own name, Job.update writes every key under its own name
C2_ColumnTranslation ==
  Built =>
    \A i \in 1..Len(call.data) :
       LET key == call.data[i].key IN
         /\ call.op = "sqlForPartialUpdate" =>
              BuiltSetCols[i].col =
                (IF key \in DOMAIN call.jsToSql THEN call.jsToSql[key] ELSE key)
         /\ call.op = "Company.update" =>
              BuiltSetCols[i].col = CompanyColumn(key)
         /\ call.op = "Job.update" => BuiltSetCols[i].col = key

\* Company.update of numEmployees and name: one translated, one not
C2_Witness ==
  /\ Built
  /\ call.op = "Company.update"
  /\ Len(call.data) = 2
  /\ {call.data[1].key, call.data[2].key} = {"numEmployees", "name"}
  /\ {BuiltSetCols[1].col, BuiltSetCols[2].col} = {"num_employees", "name"}

\* C3: a call of the builder, of Company.update or of Job.update with the
\* empty mapping throws BadRequestError "No data", hands no statement to
\* db.query and leaves both tables as they were, whatever the key
C3_NoData ==
  [][(call'.op \in BuilderOps /\ call'.data = <<>>) =>
       /\ outcome'.status = "threw"
       /\ outcome'.error = "BadRequestError"
       /\ outcome'.message = "No data"
       /\ queries' = <<>>
       /\ companies' = companies
       /\ jobs' = jobs
       /\ nextId' = nextId]_vars

\* Job.update of an existing job with {} has thrown "No data"
C3_Witness ==
  /\ call.op = "Job.update"
  /\ call.data = <<>>
  /\ \E j \in jobs : j.id = call.key
  /\ outcome.message = "No data"

\* ------------------------------------------------- properties of findAll
FindOps == {"Job.findAll", "Company.findAll"}

\* the last call was findAll and has ended
Found == call.op \in FindOps /\ outcome.status # "none"

\* the threshold keys of the filter, in the order findAll examines them
ThresholdKeys ==
  IF call.op = "Job.findAll" THEN <<"minSalary">>
  ELSE <<"minEmployees", "maxEmployees">>

TextKey == IF call.op = "Job.findAll" THEN "title" ELSE "name"

Table == IF call.op = "Job.findAll" THEN jobs ELSE companies

\* a value that denotes no number: NaN, or a string with a character that
\* is neither a digit nor a blank
Unparsable(v) ==
  \/ v.t = "nan"
  \/ v.t = "string" /\ \E i \in 1..Len(v.s) : ~IsDigit(v.s[i]) /\ v.s[i] # " "

\* the number a number or a digit string denotes
Numeric(v) == IF v.t = "number" THEN v.n ELSE DigitsValue(v.s)

\* the threshold keys present in the filter with a value that is no number
BadKeys ==
  {ThresholdKeys[i] : i \in {j \in 1..Len(ThresholdKeys) :
      /\ ThresholdKeys[j] \in DOMAIN call.filterObj
      /\ Unparsable(call.filterObj[ThresholdKeys[j]])}}

FirstBadKey ==
  ThresholdKeys[CHOOSE i \in 1..Len(ThresholdKeys) :
     /\ ThresholdKeys[i] \in BadKeys
     /\ \A j \in 1..(i - 1) : ThresholdKeys[j] \notin BadKeys]

\* C4: when a threshold key (minSalary; minEmployees, maxEmployees) is
\* present with a value that is no number, findAll throws BadRequestError
\* "<key> must be of type number" for such a key, the first one it
\* examines, and hands no statement to db.query
C4_NonNumericThreshold ==
  (Found /\ BadKeys # {}) =>
     /\ outcome.status = "threw"
     /\ outcome.error = "BadRequestError"
     /\ outcome.message = FirstBadKey \o " must be of type number"
     /\ queries = <<>>

\* Company.findAll with a name, a numeric minimum and a non-numeric maximum
\* has thrown for maxEmployees
C4_Witness ==
  /\ Found
  /\ DOMAIN call.filterObj = {"name", "minEmployees", "maxEmployees"}
  /\ BadKeys = {"maxEmployees"}
  /\ outcome.message = "maxEmployees must be of type number"

\* both thresholds of a Company filter are present and denote numbers
BothThresholds ==
  /\ call.op = "Company.findAll"
  /\ outcome.status # "none"
  /\ {"minEmployees", "maxEmployees"} \subseteq DOMAIN call.filterObj
  /\ BadKeys = {}

RangeError ==
  /\ outcome.status = "threw"
  /\ outcome.error = "BadRequestError"
  /\ outcome.message = "minEmployees cannot be greater than the maxEmployees"
  /\ queries = <<>>

\* C5: when both thresholds are present and the minimum exceeds the
\* maximum as numbers, whether given as numbers or as digit strings,
\* Company.findAll throws the range error without a statement; when they
\* are equal it throws nothing
C5_RangeConflict ==
  BothThresholds =>
    LET lo == Numeric(call.filterObj["minEmployees"])
        hi == Numeric(call.filterObj["maxEmployees"])
    IN /\ lo > hi => RangeError
       /\ lo = hi => outcome.status = "returned"

\* the value findAll is to bind for a predicate of its WHERE clause
ExpectedValue(pred) ==
  CASE pred.op = "iLIKE" ->
         Str(<<"%">> \o call.filterObj[TextKey].s \o <<"%">>)
    [] pred.op = ">=" -> Num(Numeric(call.filterObj[ThresholdKeys[1]]))
    [] pred.op = "<=" -> Num(Numeric(call.filterObj["maxEmployees"]))

\* the predicates among the first i that carry a placeholder
Placed(where, i) == {j \in 1..i : where[j].ph > 0}

\* C6: the predicates of the statement findAll issues carry $1..$k in the
\* order they were emitted, k being the number of bound values, and the
\* value at position i is the one of the predicate with $i; the equity
\* predicate carries no placeholder
C6_ContiguousPlaceholders ==
  (Found /\ queries # <<>>) =>
    LET where == queries[1].where
        values == queries[1].values
    IN /\ Len(values) = Cardinality(Placed(where, Len(where)))
       /\ queries[1].hasValues = (values # <<>>)
       /\ \A i \in 1..Len(where) :
            IF where[i].col = "equity" THEN where[i].ph = 0
            ELSE /\ where[i].ph = Cardinality(Placed(where, i))
                 /\ where[i].ph \in 1..Len(values)
                 /\ values[where[i].ph] = ExpectedValue(where[i])

\* Company.findAll without a name and with both thresholds: $1 and $2
C6_Witness ==
  /\ Found
  /\ DOMAIN call.filterObj = {"minEmployees", "maxEmployees"}
  /\ outcome.status = "returned"
  /\ Len(queries[1].where) = 2
  /\ queries[1].where[1].ph = 1
  /\ queries[1].where[2].ph = 2
  /\ queries[1].values[1] # queries[1].values[2]

\* the filter without one of its keys
Without(obj, key) == [k \in DOMAIN obj \ {key} |-> obj[k]]

EquityPredicates(where) == {i \in 1..Len(where) : where[i].col = "equity"}

\* C7: hasEquity = true adds one "equity > 0" predicate and no value;
\* hasEquity = false gives the WHERE clause, the values and the result of
\* the same filter without hasEquity, and alone it returns every job
C7_HasEquity ==
  (Found /\ call.op = "Job.findAll") =>
    LET hasEquity == Prop(call.filterObj, "hasEquity")
        rest == JobFilterClause(Without(call.filterObj, "hasEquity"))
        plain == SelectQuery("jobs", "title", rest)
    IN /\ queries # <<>> =>
            Cardinality(EquityPredicates(queries[1].where)) =
              (IF hasEquity = Bool(TRUE) THEN 1 ELSE 0)
       /\ (hasEquity = Bool(TRUE) /\ queries # <<>>) =>
            /\ queries[1].where =
                 Append(rest.whereClause, [col |-> "equity", op |-> ">0", ph |-> 0])
            /\ queries[1].values = rest.params
       /\ hasEquity = Bool(FALSE) =>
            /\ queries = (IF rest.threw THEN <<>> ELSE <<plain>>)
            /\ outcome.status = "returned" =>
                 outcome.rows \in OrderBy(SelectRows(jobs, plain), "title")
            /\ DOMAIN call.filterObj = {"hasEquity"} =>
                 /\ outcome.status = "returned"
                 /\ Len(outcome.rows) = Cardinality(jobs)
                 /\ {outcome.rows[i] : i \in 1..Len(outcome.rows)} = jobs

\* {hasEquity: false} alone has returned two jobs, one of them without
\* equity
C7_Witness ==
  /\ Found
  /\ call.op = "Job.findAll"
  /\ DOMAIN call.filterObj = {"hasEquity"}
  /\ call.filterObj["hasEquity"] = Bool(FALSE)
  /\ Len(outcome.rows) = 2
  /\ \E i \in 1..2 : outcome.rows[i].equity = Num(0)

\* hay contains needle as a substring, letter case aside
Contains(hay, needle) ==
  \E i \in 0..(Len(hay) - Len(needle)) :
     SubSeq(LowerStr(hay), i + 1, i + Len(needle)) = LowerStr(needle)

\* the rows the last call returned, as a set
Rows == {outcome.rows[i] : i \in 1..Len(outcome.rows)}

\* the value of a filter key is present and not nil
Given(key) == key \in DOMAIN call.filterObj /\ ~isNil(call.filterObj[key])

\* C8: for a filter whose minSalary, if present, is a number, Job.findAll
\* returns exactly the jobs whose title contains the text (letter case
\* aside), whose salary is at least minSalary and, for hasEquity = true,
\* whose equity is above 0, each condition applying when its key is
\* present; a NULL salary or equity fails its condition
C8_JobsMatching ==
  (Found /\ call.op = "Job.findAll" /\ BadKeys = {}) =>
    /\ outcome.status = "returned"
    /\ Len(outcome.rows) = Cardinality(Rows)
    /\ Rows =
        {j \in jobs :
           /\ Given("title") => Contains(j.title.s, call.filterObj["title"].s)
           /\ Given("minSalary") =>
                /\ j.salary.t = "number"
                /\ j.salary.n >= Numeric(call.filterObj["minSalary"])
           /\ Prop(call.filterObj, "hasEquity") = Bool(TRUE) =>
                j.equity.t = "number" /\ j.equity.n > 0}

\* the minimum of the filter exceeds its maximum
MinAboveMax ==
  /\ Given("minEmployees")
  /\ Given("maxEmployees")
  /\ Numeric(call.filterObj["minEmployees"]) >
       Numeric(call.filterObj["maxEmployees"])

\* C9: for a filter whose thresholds, if present, are numbers with the
\* minimum not above the maximum, Company.findAll returns exactly the
\* companies whose name contains the text (letter case aside) and whose
\* numEmployees is at least minEmployees and at most maxEmployees, each
\* condition applying when its key is present; a NULL numEmployees fails
\* either threshold
C9_CompaniesMatching ==
  (Found /\ call.op = "Company.findAll" /\ BadKeys = {} /\ ~MinAboveMax) =>
    /\ outcome.status = "returned"
    /\ Len(outcome.rows) = Cardinality(Rows)
    /\ Rows =
        {c \in companies :
           /\ Given("name") => Contains(c.name.s, call.filterObj["name"].s)
           /\ Given("minEmployees") =>
                /\ c.numEmployees.t = "number"
                /\ c.numEmployees.n >= Numeric(call.filterObj["minEmployees"])
           /\ Given("maxEmployees") =>
                /\ c.numEmployees.t = "number"
                /\ c.numEmployees.n <= Numeric(call.filterObj["maxEmployees"])}

\* C10: findAll returns its rows in ascending order of title (jobs) or
\* name (companies); with an empty or omitted filter the statement has no
\* WHERE clause and no values and every row of the table is returned
C10_OrderedAndComplete ==
  (Found /\ outcome.status = "returned") =>
    /\ \A i, j \in 1..Len(outcome.rows) :
         i < j => ~StrLess(outcome.rows[j][TextKey].s, outcome.rows[i][TextKey].s)
    /\ isEmpty(call.filterObj) =>
         /\ Len(queries) = 1
         /\ queries[1].where = <<>>
         /\ queries[1].values = <<>>
         /\ ~queries[1].hasValues
         /\ Rows = Table
         /\ Len(outcome.rows) = Cardinality(Table)

\* findAll() without argument has returned two jobs of different titles
C10_Witness ==
  /\ Found
  /\ call.omitted
  /\ call.op = "Job.findAll"
  /\ Len(outcome.rows) = 2
  /\ StrLess(outcome.rows[1].title.s, outcome.rows[2].title.s)

\* ------------------------------------- properties of the repositories (Spec)
CreateOps == {"Company.create", "Job.create"}

\* the get of the entity that op creates
GetOf(op) == IF op = "Company.create" THEN "Company.get" ELSE "Job.get"

\* the key of a row that op created
KeyOf(op, row) == IF op = "Company.create" THEN row.handle ELSE row.id

\* the record carries every field of X with the value of X, and besides
\* only what the store generates: the id of a job, null for the logoUrl a
\* company was created without, and the (empty) jobs list of Company.get
EqualsPlusGenerated(op, record, X) ==
  /\ \A k \in DOMAIN X : k \in DOMAIN record /\ record[k] = X[k]
  /\ IF op = "Job.create"
     THEN /\ DOMAIN record = DOMAIN X \cup {"id"}
          /\ record.id.t = "number"
     ELSE /\ DOMAIN record \ {"jobs"} = DOMAIN X \cup {"logoUrl"}
          /\ "logoUrl" \notin DOMAIN X => record.logoUrl = Null
          /\ "jobs" \in DOMAIN record => record.jobs = <<>>

\* C11: the record create(X) returns is X plus the generated fields, and a
\* get of its key that follows the create returns X plus the generated
\* fields as well (for a job the very record create returned)
C11_CreateGetRoundTrip ==
  [][/\ (call'.op \in CreateOps /\ outcome'.status = "returned") =>
          /\ Len(outcome'.rows) = 1
          /\ EqualsPlusGenerated(call'.op, outcome'.rows[1], call'.fields)
     /\ (/\ call.op \in CreateOps
         /\ outcome.status = "returned"
         /\ call'.op = GetOf(call.op)
         /\ call'.key = KeyOf(call.op, outcome.rows[1])) =>
          /\ outcome'.status = "returned"
          /\ Len(outcome'.rows) = 1
          /\ EqualsPlusGenerated(call.op, outcome'.rows[1], call.fields)
          /\ call.op = "Job.create" => outcome'.rows[1] = outcome.rows[1]]_vars

\* a job as created is got back: the second id of the sequence, the salary
\* and equity of the data of Job.create
C11_Witness ==
  /\ call.op = "Job.get"
  /\ outcome.status = "returned"
  /\ outcome.rows[1].id = Num(2)
  /\ outcome.rows[1].salary = Num(1)
  /\ outcome.rows[1].equity = Num(0)
  /\ outcome.rows[1].title = Str(JobTitles[2])

\* C12: Company.create with a handle that a company of the store has throws
\* BadRequestError (duplicate), issues no INSERT and leaves every row of the
\* store, the one with that handle included, as it was
C12_DuplicateCompany ==
  [][(/\ call'.op = "Company.create"
      /\ \E c \in companies : c.handle = call'.key) =>
        /\ outcome'.status = "threw"
        /\ outcome'.error = "BadRequestError"
        /\ outcome'.message = "Duplicate company"
        /\ \A i \in 1..Len(queries') : queries'[i].cmd # "INSERT"
        /\ companies' = companies
        /\ jobs' = jobs]_vars

\* a duplicate create refused while the stored company differs from the data
\* of the call
C12_Witness ==
  /\ call.op = "Company.create"
  /\ outcome.status = "threw"
  /\ outcome.error = "BadRequestError"
  /\ \E c \in companies :
        c.handle = call.key /\ c.numEmployees # call.fields.numEmployees

CompanyKeyOps == {"Company.get", "Company.update", "Company.remove"}

JobKeyOps == {"Job.get", "Job.update", "Job.remove"}

\* the call about to be recorded names a key that no row of its table has,
\* and is not an update with the empty payload
MissesItsRow ==
  /\ call'.op \in UpdateOps => call'.data # <<>>
  /\ \/ /\ call'.op \in CompanyKeyOps
        /\ \A c \in companies : c.handle # call'.key
     \/ /\ call'.op \in JobKeyOps
        /\ \A j \in jobs : j.id # call'.key

\* C13: get, update with a non-empty payload and remove of a key that no row
\* has throw NotFoundError and leave both tables as they were
C13_NotFound ==
  [][MissesItsRow =>
       /\ outcome'.status = "threw"
       /\ outcome'.error = "NotFoundError"
       /\ companies' = companies
       /\ jobs' = jobs]_vars

\* an update of a job id that the store lacks, refused while the store holds
\* another job
C13_Witness ==
  /\ call.op = "Job.update"
  /\ call.data # <<>>
  /\ outcome.status = "threw"
  /\ outcome.error = "NotFoundError"
  /\ jobs # {}
  /\ \A j \in jobs : j.id # call.key

\* the call about to be recorded removes a row that its table has
RemovesItsRow ==
  \/ /\ call'.op = "Company.remove"
     /\ \E c \in companies : c.handle = call'.key
  \/ /\ call'.op = "Job.remove"
     /\ \E j \in jobs : j.id = call'.key

\* a get or a second remove of the key follows the remove that returned
FollowsRemove ==
  /\ call.op \in RemoveOps
  /\ outcome.status = "returned"
  /\ call'.key = call.key
  /\ \/ call.op = "Company.remove" /\ call'.op \in {"Company.get", "Company.remove"}
     \/ call.op = "Job.remove" /\ call'.op \in {"Job.get", "Job.remove"}

\* C14 as claimed: remove of the key of a row deletes that row and changes
\* no other row of the store; a get and a second remove of the key that
\* follow throw NotFoundError
C14_RemoveExactlyOne ==
  [][/\ RemovesItsRow =>
          /\ outcome'.status = "returned"
          /\ call'.op = "Company.remove" =>
               /\ companies' = {c \in companies : c.handle # call'.key}
               /\ jobs' = jobs
          /\ call'.op = "Job.remove" =>
               /\ jobs' = {j \in jobs : j.id # call'.key}
               /\ companies' = companies
     /\ FollowsRemove =>
          /\ outcome'.status = "threw"
          /\ outcome'.error = "NotFoundError"]_vars

\* C14 amended: remove of the key of a row deletes that row and changes no
\* other row of its table; of the other table Job.remove changes nothing and
\* Company.remove deletes the jobs of the removed company and no other job;
\* a get and a second remove of the key that follow throw NotFoundError
C14_RemoveRowAndItsJobs ==
  [][/\ RemovesItsRow =>
          /\ outcome'.status = "returned"
          /\ call'.op = "Company.remove" =>
               /\ companies' = {c \in companies : c.handle # call'.key}
               /\ jobs' = {j \in jobs : j.companyHandle # call'.key}
          /\ call'.op = "Job.remove" =>
               /\ jobs' = {j \in jobs : j.id # call'.key}
               /\ companies' = companies
     /\ FollowsRemove =>
          /\ outcome'.status = "threw"
          /\ outcome'.error = "NotFoundError"]_vars

\* a company removed while another company and its job stay
C14_Witness ==
  /\ call.op = "Company.remove"
  /\ outcome.status = "returned"
  /\ companies # {}
  /\ jobs # {}

\* the keys of the payload of the call about to be recorded
PayloadKeys(data) == {data[i].key : i \in 1..Len(data)}

\* the row of the table of op that has the key
RowOf(op, key, cs, js) ==
  IF op = "Company.update" THEN {c \in cs : c.handle = key}
  ELSE {j \in js : j.id = key}

\* the call about to be recorded updates a row that its table has, with a
\* non-empty payload of fields that its entity lets a caller update
UpdatesItsRow ==
  /\ call'.op \in UpdateOps
  /\ call'.data # <<>>
  /\ PayloadKeys(call'.data) \subseteq
       (IF call'.op = "Company.update" THEN CompanyUpdateKeys ELSE JobUpdateKeys)
  /\ RowOf(call'.op, call'.key, companies, jobs) # {}

\* a get of the key follows the update that returned
FollowsUpdate ==
  /\ call.op \in UpdateOps
  /\ outcome.status = "returned"
  /\ PayloadKeys(call.data) \subseteq
       (IF call.op = "Company.update" THEN CompanyUpdateKeys ELSE JobUpdateKeys)
  /\ call'.key = call.key
  /\ call'.op = (IF call.op = "Company.update" THEN "Company.get" ELSE "Job.get")

\* C15: update of the key of a row with a payload of updatable fields gives
\* every field of the payload the supplied value (null where null is
\* supplied), keeps every other field of the row, changes no other row of
\* either table and returns the row as stored; a get of the key that
\* follows returns the same fields
C15_PartialUpdate ==
  [][/\ UpdatesItsRow =>
          LET old == CHOOSE r \in RowOf(call'.op, call'.key, companies, jobs) : TRUE
              now == RowOf(call'.op, call'.key, companies', jobs')
          IN /\ outcome'.status = "returned"
             /\ Cardinality(now) = 1
             /\ \A new \in now :
                  /\ \A i \in 1..Len(call'.data) :
                        new[call'.data[i].key] = call'.data[i].val
                  /\ \A f \in DOMAIN old \ PayloadKeys(call'.data) :
                        new[f] = old[f]
                  /\ outcome'.rows = <<new>>
                  /\ IF call'.op = "Company.update"
                     THEN companies' \ {new} = companies \ {old} /\ jobs' = jobs
                     ELSE jobs' \ {new} = jobs \ {old} /\ companies' = companies
     /\ FollowsUpdate =>
          /\ outcome'.status = "returned"
          /\ \A f \in DOMAIN outcome.rows[1] :
                outcome'.rows[1][f] = outcome.rows[1][f]]_vars

\* a job's salary cleared to null by a payload without title, the title it
\* was created with kept, next to a second job
C15_Witness ==
  /\ call.op = "Job.update"
  /\ outcome.status = "returned"
  /\ PayloadKeys(call.data) = {"salary"}
  /\ outcome.rows[1].salary = Null
  /\ outcome.rows[1].title = Str(JobTitles[2])
  /\ Cardinality(jobs) = 2

\* the names under which a body can name the company of a job: the field
\* and the column
CompanyReferenceKeys == {"companyHandle", "company_handle"}

EveryJobHasItsCompany(cs, js) ==
  \A j \in js : \E c \in cs : c.handle = j.companyHandle

\* C17: in every reachable state every job's companyHandle is the handle of
\* a company of the store; a Job.create that names no company of the store
\* adds no job, and after a Company.remove no job names the removed handle
C17_JobsReferToCompanies ==
  /\ []EveryJobHasItsCompany(companies, jobs)
  /\ [][/\ (/\ call'.op = "Job.create"
            /\ \A c \in companies : c.handle # call'.key) =>
             /\ outcome'.status = "threw"
             /\ jobs' = jobs
        /\ call'.op = "Company.remove" =>
             \A j \in jobs' : j.companyHandle # call'.key]_vars

\* a company removed that had a job, told by the id the job took: the store
\* is left with a later job of the other company
C17_Witness ==
  /\ call.op = "Company.remove"
  /\ outcome.status = "returned"
  /\ nextId = 3
  /\ Cardinality(jobs) = 1
  /\ \A j \in jobs : j.companyHandle # call.key

JobFields == {"id", "title", "salary", "equity", "companyHandle"}

EmptyFilter == call.op \in FindOps /\ (call.omitted \/ call.filterObj = EmptyObject)

\* C19: a findAll with the empty filter that follows one that returned, with
\* no write in between, returns the same rows in the same order, and no
\* findAll changes either table
C19_FindAllTwice ==
  [][/\ (EmptyFilter /\ outcome.status = "returned" /\ call' = call) =>
          /\ outcome'.status = "returned"
          /\ outcome'.rows = outcome.rows
     /\ call'.op \in FindOps => companies' = companies /\ jobs' = jobs]_vars

\* ------------------------------------------------ the handle of a company
\* the handles of a set of companies
HandlesOf(cs) == {c.handle : c \in cs}

\* C20: no step changes the handle of a company that stays in the store:
\* only Company.remove takes a handle away, a Company.update leaves the
\* handles of the store as they were, and the row a Company.update returns
\* has the handle it was called with
C20_HandleImmutable ==
  [][/\ call'.op # "Company.remove" => HandlesOf(companies) \subseteq HandlesOf(companies')
     /\ call'.op = "Company.update" =>
          /\ HandlesOf(companies') = HandlesOf(companies)
          /\ outcome'.status = "returned" =>
                outcome'.rows[1].handle = call'.key]_vars

\* ------------------------------------------ the statement of an update
\* C26: an update with a payload of n > 0 keys hands db.query one statement,
\* an UPDATE whose SET fragments use $1..$n in payload order, whose WHERE
\* compares the key column with $(n+1), and whose values are the n values
\* of the payload in order followed by the key
C26_KeyBoundLast ==
  (call.op \in UpdateOps /\ outcome.status # "none" /\ call.data # <<>>) =>
    LET n == Len(call.data)
        keyCol == IF call.op = "Company.update" THEN "handle" ELSE "id"
    IN /\ Len(queries) = 1
       /\ queries[1].cmd = "UPDATE"
       /\ Len(queries[1].set) = n
       /\ \A i \in 1..n : queries[1].set[i].ph = i
       /\ queries[1].where = <<[col |-> keyCol, op |-> "=", ph |-> n + 1]>>
       /\ queries[1].hasValues
       /\ queries[1].values =
            [i \in 1..(n + 1) |-> IF i <= n THEN call.data[i].val ELSE call.key]

\* a Company.update of a stored company with a payload of two keys
C26_Witness ==
  /\ call.op = "Company.update"
  /\ outcome.status = "returned"
  /\ Len(call.data) = 2
  /\ queries[1].where[1].ph = 3
  /\ queries[1].values[3] = Str(Handle1)

\* --------------------------------------- the statements of a mutation
\* create, update and remove of both repositories
MutatingOps ==
  {"Company.create", "Job.create", "Company.update", "Job.update",
   "Company.remove", "Job.remove"}

\* C24: a create, update or remove that has returned has handed db.query
\* exactly one statement, so it took one round trip and no state of the
\* store lies between the start and the end of its work
C24_OneStatement ==
  (call.op \in MutatingOps /\ outcome.status = "returned") =>
     Len(queries) = 1

\* ------------------------- findAll with thresholds of other types
\* threshold values that are present and are not numbers: the empty string,
\* a blank string, the booleans, the empty array, next to a text without
\* digits and a number
OddThresholdInputs ==
  {Str(<<>>), Str(<<" ">>), Bool(TRUE), Bool(FALSE), EmptyArray,
   Str(<<"a">>), Num(1)}

OddJobFilters ==
  {Object3("title", Absent, "minSalary", m, "hasEquity", Absent) :
     m \in OddThresholdInputs}

OddCompanyFilters ==
  {Object3("name", Absent, "minEmployees", lo, "maxEmployees", hi) :
     lo \in OddThresholdInputs \cup {Absent}, hi \in OddThresholdInputs}

\* a store and a findAll call whose filter has such a threshold
InitOdd ==
  /\ \/ /\ jobs \in JobStores
        /\ companies = {CompanyRow(1, 0)}
        /\ call \in {[NoCall EXCEPT !.op = "Job.findAll", !.filterObj = f] :
                       f \in OddJobFilters}
     \/ /\ jobs = {}
        /\ companies \in CompanyStores
        /\ call \in {[NoCall EXCEPT !.op = "Company.findAll", !.filterObj = f] :
                       f \in OddCompanyFilters}
  /\ nextId = Cardinality(jobs) + 1
  /\ outcome = NoOutcome
  /\ queries = <<>>
  /\ request = NoRequest
  /\ responses = <<>>
  /\ inflight = <<>>

SpecOdd == InitOdd /\ [][NextFind]_vars

\* a number, or a string that is not blank and is all digits once trimmed
DenotesNumber(v) ==
  \/ v.t = "number"
  \/ /\ v.t = "string"
     /\ Trim(v.s) # <<>>
     /\ \A i \in 1..Len(Trim(v.s)) : IsDigit(Trim(v.s)[i])

\* the threshold keys present in the filter with a value denoting no number
NonNumericKeys ==
  {ThresholdKeys[i] : i \in {j \in 1..Len(ThresholdKeys) :
      /\ ThresholdKeys[j] \in DOMAIN call.filterObj
      /\ ~DenotesNumber(call.filterObj[ThresholdKeys[j]])}}

\* C27: a findAll whose filter has a threshold key with a value that denotes
\* no number throws BadRequestError "<key> must be of type number" for such
\* a key and hands no statement to db.query
C27_UniformRejection ==
  (Found /\ NonNumericKeys # {}) =>
     /\ outcome.status = "threw"
     /\ outcome.error = "BadRequestError"
     /\ outcome.message \in {k \o " must be of type number" : k \in NonNumericKeys}
     /\ queries = <<>>

\* ------------------------------------------------ requests (SpecHttp)
\* the request is one of the mutating job endpoints
MutatesJobs(req) ==
  /\ req.method \in {"POST", "PATCH", "DELETE"}
  /\ req.path \in {"/jobs", "/jobs/:id"}

\* C21: POST /jobs, PATCH /jobs/:id and DELETE /jobs/:id from a caller who
\* is not an admin are answered 401 "Unauthorized" with no statement issued
\* and the jobs as they were, so only a request of an admin changes the
\* jobs; GET /jobs and GET /jobs/:id from an anonymous caller are answered
\* 200 with all the jobs and with the job of that id
C21_AdminOnly ==
  [][/\ (MutatesJobs(request') /\ request'.caller # "admin") =>
          /\ Len(responses') = 1
          /\ responses'[1].status = 401
          /\ responses'[1].message = "Unauthorized"
          /\ queries' = <<>>
          /\ jobs' = jobs
     /\ jobs' # jobs => (MutatesJobs(request') /\ request'.caller = "admin")
     /\ (/\ request'.caller = "anon"
         /\ request'.method = "GET"
         /\ request'.path = "/jobs"
         /\ request'.query = <<>>) =>
          /\ responses'[1].status = 200
          /\ {responses'[1].rows[i] : i \in 1..Len(responses'[1].rows)} = jobs
          /\ Len(responses'[1].rows) = Cardinality(jobs)
     /\ (/\ request'.caller = "anon"
         /\ request'.method = "GET"
         /\ request'.path = "/jobs/:id"
         /\ \E j \in jobs : j.id = request'.id) =>
          /\ responses'[1].status = 200
          /\ responses'[1].rows \in {<<j>> : j \in jobs}
          /\ responses'[1].rows[1].id = request'.id]_vars

\* the user without the admin role asked to delete a job of the store and
\* was answered 401 with the job still there
C21_Witness ==
  /\ request.method = "DELETE"
  /\ request.caller = "user"
  /\ \E j \in jobs : j.id = request.id
  /\ responses = <<[status |-> 401, message |-> "Unauthorized",
                    errorStatus |-> Num(401), rows |-> <<>>]>>

\* the indices of the query keys outside the whitelist
Outside(query) ==
  {i \in 1..Len(query) : query[i].key \notin {"title", "minSalary", "hasEquity"}}

\* the keys at a set of indices, in ascending order of index, listed with
\* ", " between them
RECURSIVE Listed(_, _)
Listed(query, idx) ==
  LET last == CHOOSE i \in idx : \A j \in idx : j <= i IN
    IF idx = {last} THEN query[last].key
    ELSE Listed(query, idx \ {last}) \o ", " \o query[last].key

\* C22: a GET /jobs whose query string has keys outside title, minSalary and
\* hasEquity is answered 400 with the message "Query k is not supported."
\* for one such key and "Queries k1, k2 are not supported." for several,
\* the keys in request order, without a call of Job.findAll and without a
\* statement
C22_UnsupportedQuery ==
  [][(/\ request'.method = "GET"
      /\ request'.path = "/jobs"
      /\ Outside(request'.query) # {}) =>
        LET idx == Outside(request'.query) IN
          /\ Len(responses') = 1
          /\ responses'[1].status = 400
          /\ responses'[1].message =
               IF Cardinality(idx) = 1
               THEN "Query " \o Listed(request'.query, idx) \o " is not supported."
               ELSE "Queries " \o Listed(request'.query, idx)
                      \o " are not supported."
          /\ call'.op = "none"
          /\ queries' = <<>>
          /\ jobs' = jobs]_vars

\* two unsupported keys around a supported one, named in request order
C22_Witness ==
  /\ request.method = "GET"
  /\ request.path = "/jobs"
  /\ Len(request.query) = 3
  /\ request.query[2].key = "title"
  /\ Len(responses) = 1
  /\ responses[1].status = 400
  /\ responses[1].message =
       "Queries anotherUnsupported, notSupported are not supported."

\* C23: every request handled has exactly one response; when its handling
\* raised an error the status is 404 for NotFoundError (a request that no
\* route takes included), 400 for BadRequestError, 401 for
\* UnauthorizedError and 500 for an error without a status, and the body
\* carries the message of the error; otherwise the status is 200 or 201
C23_OneResponse ==
  request.method # "" =>
    /\ Len(responses) = 1
    /\ outcome.status # "none"
    /\ outcome.status = "threw" =>
         /\ responses[1].status =
              (CASE outcome.error = "NotFoundError" -> 404
                 [] outcome.error = "BadRequestError" -> 400
                 [] outcome.error = "UnauthorizedError" -> 401
                 [] OTHER -> 500)
         /\ responses[1].message = outcome.message
    /\ outcome.status = "returned" => responses[1].status \in {200, 201}
    /\ request.path = "/nowhere" =>
         outcome.error = "NotFoundError" /\ responses[1].status = 404
    /\ (request.path = "/companies" /\ request.caller = "admin"
        /\ \E c \in companies : c.handle = request.body.handle
        /\ outcome.status = "threw") => responses[1].status = 400

\* the admin posted a job of a company that is not there: the statement was
\* refused by the server, the error has no status, the answer is 500
C23_Witness ==
  /\ request.method = "POST"
  /\ request.path = "/jobs"
  /\ request.caller = "admin"
  /\ outcome.error = "DatabaseError"
  /\ Len(queries) = 1
  /\ responses[1].status = 500

\* ------------------------------------- creates in flight (SpecRace)
\* the calls in flight that were given the handle
CallsFor(handle) ==
  {p \in DOMAIN inflight : Prop(inflight[p].data, "handle") = handle}

\* C25: once two or more concurrent Company.create calls with one handle
\* have all ended, at most one of them has returned, each of the others has
\* thrown BadRequestError, and the store has exactly one company of that
\* handle
C25_OneCreateWins ==
  \A handle \in Handles :
    (/\ Cardinality(CallsFor(handle)) >= 2
     /\ \A p \in CallsFor(handle) : inflight[p].pc = "done") =>
       /\ Cardinality({p \in CallsFor(handle) :
                         inflight[p].outcome.status = "returned"}) <= 1
       /\ \A p \in CallsFor(handle) :
            \/ inflight[p].outcome.status = "returned"
            \/ /\ inflight[p].outcome.status = "threw"
               /\ inflight[p].outcome.error = "BadRequestError"
       /\ Cardinality({c \in companies : c.handle = handle}) = 1

====
